---- MODULE Spec2Model ----
(***************************************************************************)
(* Black-Scholes dashboard (src/main.py): the pricing function             *)
(* black_scholes_option_price_and_greeks and the script that evaluates it  *)
(* once at the current spot, sweeps it over S_range and renders the        *)
(* selected plots.                                                         *)
(*                                                                         *)
(* Numbers.  Python floats are modelled in decimal fixed point: the        *)
(* integer n stands for n / Scale.  Products and quotients round towards   *)
(* minus infinity to one unit of the last place, where the floats round to *)
(* one unit of theirs.  math.log, math.exp, math.sqrt, norm.cdf and        *)
(* norm.pdf are computed by series to that resolution.  The sweep's spot   *)
(* samples are kept as exact fractions over NumSamples - 1.                *)
(***************************************************************************)
EXTENDS Integers, Sequences, FiniteSets, TLC

\* ------------------------------------------------------------ fixed point

Scale == 10 ^ 4

Half == Scale \div 2

Abs(a) == IF a < 0 THEN -a ELSE a

Max(a, b) == IF a >= b THEN a ELSE b

\* floor(a * b / Scale), both factors split so that no partial product overflows.
Mul(a, b) ==
    LET ah == a \div 100
        al == a % 100
        bh == b \div 100
        bl == b % 100
    IN  ah * bh + (ah * bl + al * bh + (al * bl) \div 100) \div 100

\* floor(a * Scale / b) for b > 0, by long division two digits at a time.
DivPos(a, b) ==
    LET q1 == a \div b
        r1 == a % b
        q2 == (r1 * 100) \div b
        r2 == (r1 * 100) % b
        q3 == (r2 * 100) \div b
    IN  q1 * Scale + q2 * 100 + q3

\* a / b for b # 0.
Div(a, b) == IF b > 0 THEN DivPos(a, b) ELSE DivPos(-a, -b)

RECURSIVE ISqrtIter(_, _)
ISqrtIter(n, g) ==
    LET h == (g + n \div g) \div 2
    IN  IF h >= g THEN g ELSE ISqrtIter(n, h)

\* math.sqrt(x) for x >= 0: Newton's iteration from a guess above the root.
Sqrt(x) == IF x = 0 THEN 0 ELSE ISqrtIter(x * Scale, Max(x, Scale))

\* e^(-y) for 0 <= y <= 1/2, by the Taylor polynomial of degree 6.
ExpNegSmall(y) ==
    LET t6 == Scale - y \div 6
        t5 == Scale - Mul(y \div 5, t6)
        t4 == Scale - Mul(y \div 4, t5)
        t3 == Scale - Mul(y \div 3, t4)
        t2 == Scale - Mul(y \div 2, t3)
    IN  Scale - Mul(y, t2)

RECURSIVE ExpNeg(_)
\* e^(-y) for y >= 0: halve the argument, square the result.
ExpNeg(y) ==
    IF y >= 12 * Scale THEN 0
    ELSE IF y <= Half THEN ExpNegSmall(y)
    ELSE LET h == ExpNeg(y \div 2) IN Mul(h, h)

\* math.exp(x).
Exp(x) == IF x <= 0 THEN ExpNeg(-x) ELSE Div(Scale, ExpNeg(x))

\* ln(x) for 1/2 <= x <= 2: 2 atanh((x - 1) / (x + 1)).
LnNear1(x) ==
    LET z  == Div(x - Scale, x + Scale)
        z2 == Mul(z, z)
        p4 == Scale \div 7 + Mul(z2, Scale \div 9)
        p3 == Scale \div 5 + Mul(z2, p4)
        p2 == Scale \div 3 + Mul(z2, p3)
        p1 == Scale + Mul(z2, p2)
    IN  2 * Mul(z, p1)

RECURSIVE Ln(_)
\* math.log(x) for x > 0.
Ln(x) ==
    IF x > 2 * Scale THEN Ln(x \div 2) + 6931
    ELSE IF 2 * x < Scale THEN Ln(2 * x) - 6931
    ELSE LnNear1(x)

\* norm.pdf(x) = e^(-x^2 / 2) / sqrt(2 pi).
norm_pdf(x) ==
    IF Abs(x) >= 7 * Scale THEN 0
    ELSE Mul(3989, ExpNeg(Mul(x, x) \div 2))

\* norm.cdf(x) for x > 0 (Abramowitz and Stegun 26.2.17).
CdfUpper(x) ==
    LET t  == Div(Scale, Scale + Mul(2316, x))
        p5 == Mul(t, 13303)
        p4 == Mul(t, p5 - 18213)
        p3 == Mul(t, p4 + 17815)
        p2 == Mul(t, p3 - 3566)
        p1 == Mul(t, p2 + 3194)
    IN  Scale - Mul(norm_pdf(x), p1)

\* norm.cdf(x).
norm_cdf(x) ==
    IF Abs(x) >= 7 * Scale THEN (IF x > 0 THEN Scale ELSE 0)
    ELSE IF x = 0 THEN Half
    ELSE IF x > 0 THEN CdfUpper(x)
    ELSE Scale - CdfUpper(-x)

\* ----------------------------------------------------------------- inputs

\* np.linspace(max(50, S - 50), S + 50, 100)
FloorSpot == 50

HalfWidth == 50

NumSamples == 100

MaxPairs == 3

\* <<S, K>> in dollars (the sliders move in steps of 1.0): the first MaxPairs
\* of these are tried.
SpotStrikePairs ==
    << <<80, 100>>, <<120, 100>>, <<100, 110>>, <<150, 120>>, <<60, 90>> >>

SpotStrikeValues ==
    {SpotStrikePairs[n] : n \in 1..(IF MaxPairs < Len(SpotStrikePairs)
                                    THEN MaxPairs ELSE Len(SpotStrikePairs))}

\* T and sigma, valid and invalid: the function checks them itself.
TValues == {-2500, 0, 5000, 10000}

SigmaValues == {-1000, 0, 2000}

\* <<r, q>>
RateValues == {<<500, 0>>, <<500, 300>>}

OptionTypes == {"call", "put", "Call", "PUT", "straddle"}

plot_options == <<"Delta", "Gamma", "Theta", "Vega", "Rho", "Payoff">>

Selections == {<<>>, plot_options, <<"Rho", "Delta">>}

\* str.lower() on the option types above.
Lower(s) ==
    CASE s = "Call" -> "call"
      [] s = "PUT" -> "put"
      [] OTHER -> s

\* ----------------------------------- black_scholes_option_price_and_greeks

MsgInvalidParameter == "Time to maturity and volatility must be positive."

MsgInvalidOptionType == "Option type must be 'call' or 'put'."

MsgMathDomain == "math domain error"

MsgDivisionByZero == "float division by zero"

NoLocals == [n \in {} |-> 0]

\* The call's frame: its position, its arguments, the locals assigned so far and
\* how it ended.
Frame(S_, K_, T_, r_, q_, sigma_, option_type_) ==
    [pc |-> "validate", S |-> S_, K |-> K_, T |-> T_, r |-> r_, q |-> q_,
     sigma |-> sigma_, option_type |-> option_type_,
     locals |-> NoLocals, result |-> [kind |-> "none"]]

Raise(f, kind_, msg_) ==
    [f EXCEPT !.pc = "raised", !.result = [kind |-> kind_, msg |-> msg_]]

\* bs_validate with "and" for "or".
bs_validate_and(f) ==
    IF f.T <= 0 /\ f.sigma <= 0
    THEN Raise(f, "ValueError", MsgInvalidParameter)
    ELSE [f EXCEPT !.pc = "d1_d2"]

\* bs_validate with one check and one message per parameter.
bs_validate_each(f) ==
    IF f.T <= 0
    THEN Raise(f, "ValueError", "Time to maturity must be positive.")
    ELSE IF f.sigma <= 0
    THEN Raise(f, "ValueError", "Volatility must be positive.")
    ELSE [f EXCEPT !.pc = "d1_d2"]

\* if T <= 0 or sigma <= 0: raise ValueError(...)
bs_validate(f) ==
    IF f.T <= 0 \/ f.sigma <= 0
    THEN Raise(f, "ValueError", MsgInvalidParameter)
    ELSE [f EXCEPT !.pc = "d1_d2"]

\* d1 = (math.log(S / K) + (r - q + 0.5 * sigma**2) * T) / (sigma * math.sqrt(T))
\* d2 = d1 - sigma * math.sqrt(T)
bs_d1_d2(f) ==
    IF f.K = 0 THEN Raise(f, "ZeroDivisionError", MsgDivisionByZero)
    ELSE IF Div(f.S, f.K) <= 0 THEN Raise(f, "ValueError", MsgMathDomain)
    ELSE IF f.T < 0 THEN Raise(f, "ValueError", MsgMathDomain)
    ELSE LET vol == Mul(f.sigma, Sqrt(f.T))
             d1  == Div(Ln(Div(f.S, f.K))
                          + Mul(f.r - f.q + Mul(Half, Mul(f.sigma, f.sigma)), f.T),
                        vol)
             d2  == d1 - vol
         IN  IF vol = 0
             THEN Raise(f, "ZeroDivisionError", MsgDivisionByZero)
             ELSE [f EXCEPT !.pc = "dispatch",
                            !.locals = ("d1" :> d1) @@ ("d2" :> d2)]

\* The 'call' branch.
bs_call(f) ==
    LET d1 == f.locals["d1"]
        d2 == f.locals["d2"]
        eq == Exp(Mul(-f.q, f.T))
        er == Exp(Mul(-f.r, f.T))
        N1 == norm_cdf(d1)
        N2 == norm_cdf(d2)
        price == Mul(Mul(f.S, eq), N1) - Mul(Mul(f.K, er), N2)
        delta == Mul(eq, N1)
        theta == -Div(Mul(Mul(Mul(f.S, eq), norm_pdf(d1)), f.sigma), 2 * Sqrt(f.T))
                 - Mul(Mul(Mul(f.r, f.K), er), N2)
                 + Mul(Mul(Mul(f.q, f.S), eq), N1)
        rho   == Mul(Mul(Mul(f.K, f.T), er), N2)
    IN  ("price" :> price) @@ ("delta" :> delta) @@ ("theta" :> theta)
        @@ ("rho" :> rho) @@ f.locals

\* bs_put with the price's second term on d1 of the wrong sign.
bs_put_sign(f) ==
    LET d1 == f.locals["d1"]
        d2 == f.locals["d2"]
        eq == Exp(Mul(-f.q, f.T))
        er == Exp(Mul(-f.r, f.T))
        M1 == norm_cdf(-d1)
        M2 == norm_cdf(-d2)
        price == Mul(Mul(f.K, er), M2) - Mul(Mul(f.S, eq), norm_cdf(d1))
        delta == Mul(-eq, M1)
        theta == -Div(Mul(Mul(Mul(f.S, eq), norm_pdf(d1)), f.sigma), 2 * Sqrt(f.T))
                 + Mul(Mul(Mul(f.r, f.K), er), M2)
                 - Mul(Mul(Mul(f.q, f.S), eq), M1)
        rho   == Mul(Mul(Mul(-f.K, f.T), er), M2)
    IN  ("price" :> price) @@ ("delta" :> delta) @@ ("theta" :> theta)
        @@ ("rho" :> rho) @@ f.locals

\* The 'put' branch.
bs_put(f) ==
    LET d1 == f.locals["d1"]
        d2 == f.locals["d2"]
        eq == Exp(Mul(-f.q, f.T))
        er == Exp(Mul(-f.r, f.T))
        M1 == norm_cdf(-d1)
        M2 == norm_cdf(-d2)
        price == Mul(Mul(f.K, er), M2) - Mul(Mul(f.S, eq), M1)
        delta == Mul(-eq, M1)
        theta == -Div(Mul(Mul(Mul(f.S, eq), norm_pdf(d1)), f.sigma), 2 * Sqrt(f.T))
                 + Mul(Mul(Mul(f.r, f.K), er), M2)
                 - Mul(Mul(Mul(f.q, f.S), eq), M1)
        rho   == Mul(Mul(Mul(-f.K, f.T), er), M2)
    IN  ("price" :> price) @@ ("delta" :> delta) @@ ("theta" :> theta)
        @@ ("rho" :> rho) @@ f.locals

\* bs_dispatch comparing option_type itself, not option_type.lower().
bs_dispatch_exact(f) ==
    IF f.option_type = "call"
    THEN [f EXCEPT !.pc = "gamma_vega", !.locals = bs_call(f)]
    ELSE IF f.option_type = "put"
    THEN [f EXCEPT !.pc = "gamma_vega", !.locals = bs_put(f)]
    ELSE Raise(f, "ValueError", MsgInvalidOptionType)

\* if option_type.lower() == 'call': ... elif ... == 'put': ... else: raise
bs_dispatch(f) ==
    IF Lower(f.option_type) = "call"
    THEN [f EXCEPT !.pc = "gamma_vega", !.locals = bs_call(f)]
    ELSE IF Lower(f.option_type) = "put"
    THEN [f EXCEPT !.pc = "gamma_vega", !.locals = bs_put(f)]
    ELSE Raise(f, "ValueError", MsgInvalidOptionType)

\* gamma and vega, the same for both option types.
bs_gamma_vega(f) ==
    LET d1 == f.locals["d1"]
        eq == Exp(Mul(-f.q, f.T))
        n1 == norm_pdf(d1)
        sq == Sqrt(f.T)
        gamma == Div(Mul(eq, n1), Mul(Mul(f.S, f.sigma), sq))
        vega  == Mul(Mul(Mul(f.S, eq), n1), sq)
    IN  [f EXCEPT !.pc = "rho",
                  !.locals = ("gamma" :> gamma) @@ ("vega" :> vega) @@ f.locals]

\* bs_rho with the put's rho on -d1.
bs_rho_d1(f) ==
    LET d1 == f.locals["d1"]
        d2 == f.locals["d2"]
        er == Exp(Mul(-f.r, f.T))
        rho == IF Lower(f.option_type) = "call"
               THEN Mul(Mul(Mul(f.K, f.T), er), norm_cdf(d2))
               ELSE Mul(Mul(Mul(-f.K, f.T), er), norm_cdf(-d1))
    IN  [f EXCEPT !.pc = "return", !.locals = ("rho" :> rho) @@ f.locals]

\* The second assignment to rho.
bs_rho(f) ==
    LET d2 == f.locals["d2"]
        er == Exp(Mul(-f.r, f.T))
        rho == IF Lower(f.option_type) = "call"
               THEN Mul(Mul(Mul(f.K, f.T), er), norm_cdf(d2))
               ELSE Mul(Mul(Mul(-f.K, f.T), er), norm_cdf(-d2))
    IN  [f EXCEPT !.pc = "return", !.locals = ("rho" :> rho) @@ f.locals]

\* return {'price': price, ..., 'rho': rho}
bs_return(f) ==
    [f EXCEPT !.pc = "returned",
              !.result = [kind  |-> "return",
                          value |-> [price |-> f.locals["price"],
                                     delta |-> f.locals["delta"],
                                     gamma |-> f.locals["gamma"],
                                     theta |-> f.locals["theta"],
                                     vega  |-> f.locals["vega"],
                                     rho   |-> f.locals["rho"]]]]

Ended(f) == f.pc \in {"returned", "raised"}

bs_step(f) ==
    CASE f.pc = "validate"   -> bs_validate(f)
      [] f.pc = "d1_d2"      -> bs_d1_d2(f)
      [] f.pc = "dispatch"   -> bs_dispatch(f)
      [] f.pc = "gamma_vega" -> bs_gamma_vega(f)
      [] f.pc = "rho"        -> bs_rho(f)
      [] f.pc = "return"     -> bs_return(f)

RECURSIVE bs_run(_)
bs_run(f) == IF Ended(f) THEN f ELSE bs_run(bs_step(f))

\* One whole call: how it ended.
black_scholes_option_price_and_greeks(S_, K_, T_, r_, q_, sigma_, option_type_) ==
    bs_run(Frame(S_, K_, T_, r_, q_, sigma_, option_type_)).result

\* ------------------------------------------------------------- the script

VARIABLES
    S, K, T, r, q, sigma, option_type,  \* the sidebar's values
    selected_plots,                     \* the multiselect's value
    pc,                                 \* the script's position
    frame,                              \* the call made for the current parameters
    results,                            \* <<the call's return value>>, <<>> before
    payoff,                             \* <<payoff>>, <<>> before
    metrics,                            \* the st.metric calls made: <<label, value>>
    S_range,                            \* the samples' numerators over NumSamples - 1
    plot_data,                          \* the six series
    i,                                  \* samples the loop has processed
    j,                                  \* plots the rendering loop has drawn
    plots,                              \* the figures handed to st.pyplot
    errors,                             \* the st.error calls made
    n_calls                             \* calls of the pricing function so far

inputs == <<S, K, T, r, q, sigma, option_type, selected_plots>>

vars == <<S, K, T, r, q, sigma, option_type, selected_plots, pc, frame, results,
          payoff, metrics, S_range, plot_data, i, j, plots, errors, n_calls>>

NoFrame == [pc |-> "none"]

Den == NumSamples - 1

\* A dollar amount n in fixed point.
Fx(n) == n * Scale

\* max(S - K, 0) if option_type == 'call' else max(K - S, 0)
payoff_at(s, k, option_type_) ==
    IF option_type_ = "call" THEN Max(s - k, 0) ELSE Max(k - s, 0)

\* linspace without its endpoint: steps of (stop - start) / num.
linspace_open(start, stop, num) ==
    [n \in 1..num |-> start * (num - 1) + (((n - 1) * (stop - start)) \div num) * (num - 1)]

\* np.linspace(start, stop, num): start + n * (stop - start) / (num - 1), as
\* numerators over num - 1.
linspace(start, stop, num) ==
    [n \in 1..num |-> start * (num - 1) + (n - 1) * (stop - start)]

\* The float a sample of S_range is.
Sample(x) == x \div Den

EmptySeries == [name \in {plot_options[n] : n \in 1..Len(plot_options)} |-> <<>>]

\* AppendAll without the append to Rho.
AppendAll_no_rho(data, res, s) ==
    [data EXCEPT !["Delta"]  = Append(@, res.delta),
                 !["Gamma"]  = Append(@, res.gamma),
                 !["Theta"]  = Append(@, res.theta),
                 !["Vega"]   = Append(@, res.vega),
                 !["Payoff"] = Append(@, payoff_at(s, Fx(K), option_type))]

\* AppendAll filling only the series selected for display.
AppendAll_selected(data, res, s) ==
    LET chosen == {selected_plots[n] : n \in 1..Len(selected_plots)}
        all == [data EXCEPT !["Delta"]  = Append(@, res.delta),
                            !["Gamma"]  = Append(@, res.gamma),
                            !["Theta"]  = Append(@, res.theta),
                            !["Vega"]   = Append(@, res.vega),
                            !["Rho"]    = Append(@, res.rho),
                            !["Payoff"] = Append(@, payoff_at(s, Fx(K), option_type))]
    IN  [name \in DOMAIN data |-> IF name \in chosen THEN all[name] ELSE data[name]]

\* The six appends of the loop's body.
AppendAll(data, res, s) ==
    [data EXCEPT !["Delta"]  = Append(@, res.delta),
                 !["Gamma"]  = Append(@, res.gamma),
                 !["Theta"]  = Append(@, res.theta),
                 !["Vega"]   = Append(@, res.vega),
                 !["Rho"]    = Append(@, res.rho),
                 !["Payoff"] = Append(@, payoff_at(s, Fx(K), option_type))]

\* ax.plot(S_range, plot_data[plot_name], label=plot_name, ...); st.pyplot(fig)
Figure(plot_name) == [name |-> plot_name, x |-> S_range, y |-> plot_data[plot_name]]

\* Except swallowing the error: "except ValueError: pass".
Except_silent(result) ==
    /\ pc' = IF result.kind = "ValueError" THEN "error" ELSE "uncaught"
    /\ errors' = errors

\* except ValueError as e: st.error(f"Error: {e}"); any other exception leaves
\* the script uncaught.
Except(result) ==
    /\ pc' = IF result.kind = "ValueError" THEN "error" ELSE "uncaught"
    /\ errors' = IF result.kind = "ValueError"
                 THEN Append(errors, <<"Error: ", result.msg>>)
                 ELSE errors

Init ==
    /\ \E sk \in SpotStrikeValues : S = sk[1] /\ K = sk[2]
    /\ T \in TValues
    /\ sigma \in SigmaValues
    /\ \E rq \in RateValues : r = rq[1] /\ q = rq[2]
    /\ option_type \in OptionTypes
    /\ selected_plots \in Selections
    /\ pc = "start"
    /\ frame = NoFrame
    /\ results = <<>>
    /\ payoff = <<>>
    /\ metrics = <<>>
    /\ S_range = <<>>
    /\ plot_data = EmptySeries
    /\ i = 0
    /\ j = 0
    /\ plots = <<>>
    /\ errors = <<>>
    /\ n_calls = 0

\* results = black_scholes_option_price_and_greeks(S, K, T, r, q, sigma, option_type):
\* the call is entered.
Call ==
    /\ pc = "start"
    /\ pc' = "call"
    /\ frame' = Frame(Fx(S), Fx(K), T, r, q, sigma, option_type)
    /\ n_calls' = n_calls + 1
    /\ UNCHANGED <<inputs, results, payoff, metrics, S_range, plot_data, i, j,
                   plots, errors>>

\* What a step inside the call leaves alone.
InCall(at) ==
    /\ pc = "call"
    /\ frame.pc = at
    /\ UNCHANGED <<inputs, pc, results, payoff, metrics, S_range, plot_data, i, j,
                   plots, errors, n_calls>>

Validate ==
    /\ InCall("validate")
    /\ frame' = bs_validate(frame)

ComputeD1D2 ==
    /\ InCall("d1_d2")
    /\ frame' = bs_d1_d2(frame)

Dispatch ==
    /\ InCall("dispatch")
    /\ frame' = bs_dispatch(frame)

GammaVega ==
    /\ InCall("gamma_vega")
    /\ frame' = bs_gamma_vega(frame)

Rho ==
    /\ InCall("rho")
    /\ frame' = bs_rho(frame)

Return ==
    /\ InCall("return")
    /\ frame' = bs_return(frame)

\* The call raised: the except clause.
CallRaised ==
    /\ pc = "call"
    /\ frame.pc = "raised"
    /\ Except(frame.result)
    /\ UNCHANGED <<inputs, frame, results, payoff, metrics, S_range, plot_data, i,
                   j, plots, n_calls>>

\* The call returned: premium, greeks, payoff and the st.metric calls.
ShowMetrics ==
    /\ pc = "call"
    /\ frame.pc = "returned"
    /\ LET res == frame.result.value
           pay == payoff_at(Fx(S), Fx(K), option_type)
       IN  /\ results' = <<res>>
           /\ payoff' = <<pay>>
           /\ metrics' = << <<"Premium (Option Price)", res.price>>,
                            <<"Payoff (at expiration)", pay>>,
                            <<"Delta", res.delta>>,
                            <<"Gamma", res.gamma>>,
                            <<"Theta", res.theta>>,
                            <<"Vega", res.vega>>,
                            <<"Rho", res.rho>> >>
    /\ pc' = "linspace"
    /\ UNCHANGED <<inputs, frame, S_range, plot_data, i, j, plots, errors, n_calls>>

\* S_range = np.linspace(max(50, S - 50), S + 50, 100); plot_data = {...}
MakeRange ==
    /\ pc = "linspace"
    /\ S_range' = linspace(Fx(Max(FloorSpot, S - HalfWidth)), Fx(S + HalfWidth),
                           NumSamples)
    /\ plot_data' = EmptySeries
    /\ i' = 0
    /\ pc' = "sweep"
    /\ UNCHANGED <<inputs, frame, results, payoff, metrics, j, plots, errors, n_calls>>

\* One pass of "for s in S_range": the call and the six appends.
SweepStep ==
    /\ pc = "sweep"
    /\ i < Len(S_range)
    /\ LET s   == Sample(S_range[i + 1])
           res == black_scholes_option_price_and_greeks(s, Fx(K), T, r, q, sigma,
                                                        option_type)
       IN  IF res.kind = "return"
           THEN /\ plot_data' = AppendAll(plot_data, res.value, s)
                /\ i' = i + 1
                /\ UNCHANGED <<pc, errors>>
           ELSE /\ Except(res)
                /\ UNCHANGED <<plot_data, i>>
    /\ n_calls' = n_calls + 1
    /\ UNCHANGED <<inputs, frame, results, payoff, metrics, S_range, j, plots>>

\* The loop is over: "if selected_plots:" and the header.
SweepDone ==
    /\ pc = "sweep"
    /\ i = Len(S_range)
    /\ pc' = IF selected_plots # <<>> THEN "render" ELSE "done"
    /\ j' = 0
    /\ UNCHANGED <<inputs, frame, results, payoff, metrics, S_range, plot_data, i,
                   plots, errors, n_calls>>

\* One pass of "for plot_name in selected_plots".
RenderPlot ==
    /\ pc = "render"
    /\ j < Len(selected_plots)
    /\ plots' = Append(plots, Figure(selected_plots[j + 1]))
    /\ j' = j + 1
    /\ pc' = IF j + 1 = Len(selected_plots) THEN "done" ELSE "render"
    /\ UNCHANGED <<inputs, frame, results, payoff, metrics, S_range, plot_data, i,
                   errors, n_calls>>

Next ==
    \/ Call
    \/ Validate
    \/ ComputeD1D2
    \/ Dispatch
    \/ GammaVega
    \/ Rho
    \/ Return
    \/ CallRaised
    \/ ShowMetrics
    \/ MakeRange
    \/ SweepStep
    \/ SweepDone
    \/ RenderPlot

Spec == Init /\ [][Next]_vars

\* ------------------------------------------------------------- properties

InCallOrAfter == pc # "start"

AsCall == {"call", "Call"}

AsPut == {"put", "PUT"}

SeriesNames == {plot_options[n] : n \in 1..Len(plot_options)}

\* The call the script would make at spot s with another T, sigma or option type.
Evaluate(s, T_, sigma_, option_type_) ==
    black_scholes_option_price_and_greeks(s, Fx(K), T_, r, q, sigma_, option_type_)

\* C1: whenever T <= 0 or sigma <= 0 the call ends in the ValueError of the
\* parameter check, whatever the spot, strike and option type (an unrecognised
\* one included), with no local assigned (no logarithm, d1, d2, CDF or PDF was
\* evaluated and no branch on the option type taken) and nothing returned.
C1_FailsFast ==
    (InCallOrAfter /\ (T <= 0 \/ sigma <= 0)) =>
        /\ frame.pc \in {"validate", "raised"}
        /\ DOMAIN frame.locals = {}
        /\ frame.pc = "raised" =>
               frame.result = [kind |-> "ValueError", msg |-> MsgInvalidParameter]
        /\ results = <<>>

C1_Witness ==
    /\ pc = "call"
    /\ frame.pc = "raised"
    /\ T > 0
    /\ sigma <= 0
    /\ option_type = "straddle"

\* C2: with T > 0 and sigma > 0 (spot and strike are positive) the call returns
\* the six values exactly when the option type is 'call' or 'put' in any case;
\* otherwise it raises the option-type ValueError, whose message is not the
\* parameter check's, and returns nothing.
C2_OptionTypeDecides ==
    (InCallOrAfter /\ T > 0 /\ sigma > 0 /\ Ended(frame)) =>
        IF option_type \in AsCall \cup AsPut
        THEN /\ frame.pc = "returned"
             /\ frame.result.kind = "return"
             /\ DOMAIN frame.result.value
                    = {"price", "delta", "gamma", "theta", "vega", "rho"}
        ELSE /\ frame.pc = "raised"
             /\ frame.result = [kind |-> "ValueError", msg |-> MsgInvalidOptionType]
             /\ frame.result.msg # MsgInvalidParameter
             /\ results = <<>>

C2_Witness ==
    /\ pc = "call"
    /\ frame.pc = "returned"
    /\ option_type = "PUT"
    /\ S > 0
    /\ K > 0

\* C3 as claimed: a failure caused by T <= 0 alone carries a message that tells
\* it apart from every failure caused by sigma <= 0 alone.
C3_MessageIdentifiesConstraint ==
    (InCallOrAfter /\ frame.pc = "raised" /\ T <= 0 /\ sigma > 0) =>
        \A T_ \in TValues, sigma_ \in SigmaValues :
            (T_ > 0 /\ sigma_ <= 0) =>
                frame.result.msg # Evaluate(frame.S, T_, sigma_, option_type).msg

\* C3 as amended: a failure of the parameter check carries the one message
\* "Time to maturity and volatility must be positive.", which names both
\* constraints: it is the same whether T, sigma or both are at fault, and it
\* differs from the option-type message.
C3_OneMessageForBoth ==
    (InCallOrAfter /\ frame.pc = "raised" /\ (T <= 0 \/ sigma <= 0)) =>
        /\ frame.result.msg = MsgInvalidParameter
        /\ frame.result.msg # MsgInvalidOptionType
        /\ \A T_ \in TValues, sigma_ \in SigmaValues :
               (T_ <= 0 \/ sigma_ <= 0) =>
                   Evaluate(frame.S, T_, sigma_, option_type).msg = frame.result.msg

C3_Witness ==
    /\ pc = "call"
    /\ frame.pc = "raised"
    /\ T <= 0
    /\ sigma > 0

\* -K * T * e^(-r T) * Phi(-d) and K * T * e^(-r T) * Phi(d).
PutRhoOn(f, d) == Mul(Mul(Mul(-f.K, f.T), Exp(Mul(-f.r, f.T))), norm_cdf(-d))

CallRhoOn(f, d) == Mul(Mul(Mul(f.K, f.T), Exp(Mul(-f.r, f.T))), norm_cdf(d))

\* C4 as claimed: the rho returned for a put is -K T e^(-r T) Phi(-d1).
C4_PutRhoUsesD1 ==
    (InCallOrAfter /\ frame.pc = "returned" /\ option_type \in AsPut) =>
        frame.result.value.rho = PutRhoOn(frame, frame.locals["d1"])

\* C4 as amended: the rho returned for a put is -K T e^(-r T) Phi(-d2), after
\* the first assignment to rho and after the second alike; for a call it is
\* K T e^(-r T) Phi(d2).
C4_PutRhoUsesD2 ==
    (InCallOrAfter /\ frame.pc \in {"gamma_vega", "rho", "return", "returned"}) =>
        LET expected == IF option_type \in AsPut
                        THEN PutRhoOn(frame, frame.locals["d2"])
                        ELSE CallRhoOn(frame, frame.locals["d2"])
        IN  /\ frame.locals["rho"] = expected
            /\ frame.pc = "returned" => frame.result.value.rho = expected

C4_Witness ==
    /\ pc = "call"
    /\ frame.pc = "returned"
    /\ option_type \in AsPut
    /\ norm_cdf(-frame.locals["d1"]) # norm_cdf(-frame.locals["d2"])
    /\ frame.result.value.rho = PutRhoOn(frame, frame.locals["d2"])

\* The payoff of an option the pricing function treats as a call or as a put.
IntrinsicValue(s, k, option_type_) ==
    IF option_type_ \in AsCall THEN Max(s - k, 0) ELSE Max(k - s, 0)

C6_SpotSamples ==
    S_range # <<>> =>
        /\ Len(S_range) = NumSamples
        /\ S_range[1] = Den * Fx(Max(FloorSpot, S - HalfWidth))
        /\ S_range[Len(S_range)] = Den * Fx(S + HalfWidth)
        /\ \A n \in 1..(Len(S_range) - 1) :
               /\ S_range[n + 1] - S_range[n] = S_range[2] - S_range[1]
               /\ S_range[n + 1] > S_range[n]
               /\ Sample(S_range[n + 1]) > Sample(S_range[n])

C6_Witness ==
    /\ pc = "sweep"
    /\ Len(S_range) = NumSamples
    /\ S - HalfWidth < FloorSpot
    /\ S_range[1] = Den * Fx(FloorSpot)

\* The entry of a series that belongs to a sample s, given the call's result.
Quantity(name, res, s) ==
    CASE name = "Delta"  -> res.delta
      [] name = "Gamma"  -> res.gamma
      [] name = "Theta"  -> res.theta
      [] name = "Vega"   -> res.vega
      [] name = "Rho"    -> res.rho
      [] name = "Payoff" -> payoff_at(s, Fx(K), option_type)

\* The k-th entry of every series is its quantity at the k-th sample.
EntryAligned(k) ==
    LET s   == Sample(S_range[k])
        res == Evaluate(s, T, sigma, option_type).value
    IN  \A name \in SeriesNames : plot_data[name][k] = Quantity(name, res, s)

\* C7: the six series always have the same length, the number of samples
\* processed so far, and the number of samples once the loop is over; the k-th
\* entry of each is its quantity at the k-th sample, with the strike, T, r, q,
\* sigma and option type of the sidebar.
C7_SeriesAligned ==
    /\ \A name \in SeriesNames : Len(plot_data[name]) = i
    /\ i <= Len(S_range)
    /\ pc \in {"render", "done"} => i = Len(S_range) /\ i = NumSamples
    /\ (pc = "sweep" /\ i > 0) => EntryAligned(i)
    /\ pc = "done" => \A k \in 1..i : EntryAligned(k)

C7_Witness ==
    /\ pc = "done"
    /\ \A name \in SeriesNames : Len(plot_data[name]) = Len(S_range)
    /\ Len(S_range) = NumSamples
    /\ plot_data["Delta"][1] # plot_data["Delta"][NumSamples]

\* The samples the sweep would take at the current spot.
SamplesOf(spot) ==
    linspace(Fx(Max(FloorSpot, spot - HalfWidth)), Fx(spot + HalfWidth), NumSamples)

\* C8: if the call at the current spot succeeds, so does the call at every
\* sample, and the script never fails once the metrics are shown; if it fails,
\* the call at every sample would fail the same way, nothing is computed or
\* plotted, no value stands in for the missing ones, and the error's message is
\* shown once.
C8_AllOrNothing ==
    /\ pc # "uncaught"
    /\ errors # <<>> => pc = "error"
    /\ metrics # <<>> => pc # "error" /\ results # <<>> /\ frame.pc = "returned"
    /\ pc = "error" =>
           /\ frame.pc = "raised"
           /\ errors = << <<"Error: ", frame.result.msg>> >>
           /\ metrics = <<>> /\ results = <<>> /\ payoff = <<>>
           /\ plots = <<>> /\ S_range = <<>>
           /\ \A name \in SeriesNames : plot_data[name] = <<>>
           /\ \A n \in 1..NumSamples :
                  Evaluate(Sample(SamplesOf(S)[n]), T, sigma, option_type)
                      = frame.result

C8_Witness ==
    /\ pc = "error"
    /\ frame.pc = "raised"
    /\ Len(errors) = 1
    /\ plots = <<>>

\* What one recomputation produces from S, K, T, r, q, sigma and option_type
\* alone.
Computed ==
    LET xs  == SamplesOf(S)
        res == [n \in 1..NumSamples |->
                   Evaluate(Sample(xs[n]), T, sigma, option_type).value]
    IN  [results |-> << Evaluate(Fx(S), T, sigma, option_type).value >>,
         payoff  |-> << payoff_at(Fx(S), Fx(K), option_type) >>,
         S_range |-> xs,
         plot_data |-> [name \in SeriesNames |->
                           [n \in 1..NumSamples |->
                               Quantity(name, res[n], Sample(xs[n]))]]]

\* C9: what is computed does not depend on the selection: the values at the
\* current spot, the payoff, the samples and the six series are those of
\* S, K, T, r, q, sigma and option_type alone. Rendering draws one figure per
\* selected name, in the selection's order, from the samples and that name's
\* series, and calls the pricing function no more.
C9_SelectionOnlyFilters ==
    /\ plots = [n \in 1..Len(plots) |->
                   [name |-> selected_plots[n], x |-> S_range,
                    y |-> plot_data[selected_plots[n]]]]
    /\ pc = "render" => Len(plots) = j /\ j < Len(selected_plots)
    /\ pc = "sweep" => \A name \in SeriesNames : Len(plot_data[name]) = i
    /\ pc \in {"render", "done"} => n_calls = 1 + NumSamples
    /\ pc = "done" =>
           /\ Len(plots) = Len(selected_plots)
           /\ [results |-> results, payoff |-> payoff, S_range |-> S_range,
               plot_data |-> plot_data] = Computed

C9_Witness ==
    /\ pc = "done"
    /\ selected_plots = <<"Rho", "Delta">>
    /\ Len(plots) = 2
    /\ plots[1].y = plot_data["Rho"]
    /\ plot_data["Payoff"] # <<>>

====
